---------------------------- MODULE Spec2Model ----------------------------
(***************************************************************************)
(* FlowScript smart-home command checker (src/FlowScriptX.py, with the     *)
(* example commands of src/flowscript2.py).                                *)
(*                                                                         *)
(* Raw text is a string; a character is a string of length one, read with  *)
(* SubSeq.  A token is the pair <<type, value>> the tokenizer appends.     *)
(* The main loop is a state machine over one command at a time: read the   *)
(* command, iterate the matches of TOKEN_REGEX, validate the token list,   *)
(* run the diagnostics of an invalid command, add the row to a table.      *)
(***************************************************************************)
EXTENDS Naturals, Sequences, FiniteSets

VARIABLES
    pc,            \* position of the script: ask, input, scan, validate, row, next, done
    num_commands,  \* the count the user entered (> 0)
    i,             \* commands handled so far (the loop index)
    user_input,    \* the raw command text of this iteration
    pos,           \* where finditer resumes scanning (1-based)
    tokens,        \* the list tokenize builds
    spans,         \* match.start() and the position after match.end(), per token
    valid,         \* first component of validate_syntax's result
    message,       \* second component of validate_syntax's result
    row            \* the row added to valid_table or invalid_table in this iteration

vars == <<pc, num_commands, i, user_input, pos, tokens, spans, valid, message, row>>

\* Largest count of commands the user asks for.
MaxCommands == 1

----------------------------------------------------------------------------
(* Characters and strings *)

\* The ASCII letters, upper case to lower case and back.
LowerOf ==
    [A |-> "a", B |-> "b", C |-> "c", D |-> "d", E |-> "e", F |-> "f", G |-> "g",
     H |-> "h", I |-> "i", J |-> "j", K |-> "k", L |-> "l", M |-> "m", N |-> "n",
     O |-> "o", P |-> "p", Q |-> "q", R |-> "r", S |-> "s", T |-> "t", U |-> "u",
     V |-> "v", W |-> "w", X |-> "x", Y |-> "y", Z |-> "z"]

UpperOf ==
    [a |-> "A", b |-> "B", c |-> "C", d |-> "D", e |-> "E", f |-> "F", g |-> "G",
     h |-> "H", i |-> "I", j |-> "J", k |-> "K", l |-> "L", m |-> "M", n |-> "N",
     o |-> "O", p |-> "P", q |-> "Q", r |-> "R", s |-> "S", t |-> "T", u |-> "U",
     v |-> "V", w |-> "W", x |-> "X", y |-> "Y", z |-> "Z"]

\* str.lower() on one ASCII character.
LowerChar(c) == IF c \in DOMAIN LowerOf THEN LowerOf[c] ELSE c

\* str.upper() on one ASCII character (used to build inputs).
UpperChar(c) == IF c \in DOMAIN UpperOf THEN UpperOf[c] ELSE c

RECURSIVE Lower(_)
Lower(s) == IF s = "" THEN "" ELSE LowerChar(Head(s)) \o Lower(Tail(s))

RECURSIVE Upper(_)
Upper(s) == IF s = "" THEN "" ELSE UpperChar(Head(s)) \o Upper(Tail(s))

\* The character of text at position p, "" past the end.
CharAt(text, p) == IF p >= 1 /\ p <= Len(text) THEN SubSeq(text, p, p) ELSE ""

\* The n characters of text from position p, "" when fewer remain.
Slice(text, p, n) ==
    IF p >= 1 /\ p + n - 1 <= Len(text) THEN SubSeq(text, p, p + n - 1) ELSE ""

\* \d on an ASCII character.
IsDigit(c) == c \in {"0", "1", "2", "3", "4", "5", "6", "7", "8", "9"}

\* int() of one digit.
DigitVal(c) ==
    CASE c = "0" -> 0 [] c = "1" -> 1 [] c = "2" -> 2 [] c = "3" -> 3
      [] c = "4" -> 4 [] c = "5" -> 5 [] c = "6" -> 6 [] c = "7" -> 7
      [] c = "8" -> 8 [] c = "9" -> 9

\* int() of a string of digits.
RECURSIVE ToInt(_)
ToInt(s) ==
    IF s = "" THEN 0
    ELSE 10 * ToInt(SubSeq(s, 1, Len(s) - 1)) + DigitVal(SubSeq(s, Len(s), Len(s)))

\* Python's  w in text  on strings.
Contains(text, w) ==
    \E p \in 1..Len(text) : Slice(text, p, Len(w)) = w

\* Number of consecutive digits of text from position p.
RECURSIVE DigitRun(_, _)
DigitRun(text, p) ==
    IF IsDigit(CharAt(text, p)) THEN 1 + DigitRun(text, p + 1) ELSE 0

----------------------------------------------------------------------------
(* The lexical rules: TOKEN_PATTERNS, compiled with re.IGNORECASE *)

\* Variant: the NUMBER rule declared before the TIME and TIME_INTERVAL rules.
TOKEN_PATTERNS_number_first ==
    << "EVENT", "SENSOR", "DEVICE", "OPERATION", "MODE", "NUMBER", "TIME",
       "TIME_INTERVAL", "OPERATOR", "THEN", "FROM_TO", "DETECTED", "AT", "EVERY" >>

\* Variant: the DEVICE rule declared before the SENSOR rule.
TOKEN_PATTERNS_device_first ==
    << "EVENT", "DEVICE", "SENSOR", "OPERATION", "MODE", "TIME", "TIME_INTERVAL",
       "NUMBER", "OPERATOR", "THEN", "FROM_TO", "DETECTED", "AT", "EVERY" >>

\* The keys of TOKEN_PATTERNS in declaration order: the order of the
\* alternation TOKEN_REGEX is built in.
TOKEN_PATTERNS ==
    << "EVENT", "SENSOR", "DEVICE", "OPERATION", "MODE", "TIME", "TIME_INTERVAL",
       "NUMBER", "OPERATOR", "THEN", "FROM_TO", "DETECTED", "AT", "EVERY" >>

\* Variant: the alternatives of OPERATOR with the two-character ones first.
OPERATOR_longest_first == << ">=", "<=", "==", ">", "<" >>

\* The alternatives of the OPERATOR rule, in order.
OPERATOR == << ">", "<", ">=", "<=", "==" >>

\* The alternatives of a rule that is an alternation of literals, in order.
Alternatives(key) ==
    CASE key = "EVENT" -> << "on", "schedule", "if", "repeat", "activate" >>
      [] key = "SENSOR" ->
            << "motion", "temperature", "humidity", "door", "sound", "triggered" >>
      [] key = "DEVICE" ->
            << "lights", "AC", "fan", "door", "alarm", "sprinkler", "watering" >>
      [] key = "OPERATION" ->
            << "turn on", "turn off", "increase", "decrease", "open", "close",
               "start", "check" >>
      [] key = "MODE" -> << "night mode", "vacation mode", "silent mode" >>
      [] key = "OPERATOR" -> OPERATOR
      [] key = "THEN" -> << "then" >>
      [] key = "FROM_TO" -> << "from", "to" >>
      [] key = "DETECTED" -> << "detected" >>
      [] key = "AT" -> << "at" >>
      [] key = "EVERY" -> << "every" >>
      [] OTHER -> << >>

\* A literal matches at p when the text there equals it; under IGNORECASE
\* when the two agree after case folding.  (The first characters are compared
\* first: the same answer, found sooner.)
LiteralAt(text, p, lit, ignorecase) ==
    IF ignorecase
        THEN /\ p + Len(lit) - 1 <= Len(text)
             /\ LowerChar(CharAt(text, p)) = LowerChar(Head(lit))
             /\ Lower(Slice(text, p, Len(lit))) = Lower(lit)
        ELSE Slice(text, p, Len(lit)) = lit

\* Length matched at p by an alternation of literals: the first alternative
\* that matches wins, whatever its length; 0 when none does.
RECURSIVE AltLen(_, _, _, _, _)
AltLen(text, p, alts, k, ignorecase) ==
    IF k > Len(alts) THEN 0
    ELSE IF LiteralAt(text, p, alts[k], ignorecase) THEN Len(alts[k])
    ELSE AltLen(text, p, alts, k + 1, ignorecase)

\* \d{1,2}:\d{2} (AM|PM) at p with exactly n leading digits.
TimeWith(text, p, n, ignorecase) ==
    /\ \A d \in 0..(n - 1) : IsDigit(CharAt(text, p + d))
    /\ CharAt(text, p + n) = ":"
    /\ IsDigit(CharAt(text, p + n + 1))
    /\ IsDigit(CharAt(text, p + n + 2))
    /\ CharAt(text, p + n + 3) = " "
    /\ AltLen(text, p + n + 4, << "AM", "PM" >>, 1, ignorecase) > 0

\* Number of leading digits \d{1,2} takes in a match of the time pattern at p
\* (greedy: two digits are tried before one); 0 when the pattern fails there.
TimeDigits(text, p, ignorecase) ==
    IF TimeWith(text, p, 2, ignorecase) THEN 2
    ELSE IF TimeWith(text, p, 1, ignorecase) THEN 1
    ELSE 0

\* Length matched at p by \d{1,2}:\d{2} (AM|PM).
TimeLen(text, p, ignorecase) ==
    IF TimeDigits(text, p, ignorecase) = 0 THEN 0
    ELSE TimeDigits(text, p, ignorecase) + 6

\* \d+ (seconds|minutes|hours) at p with exactly n leading digits; the length
\* of the unit matched, 0 when it fails.
IntervalWith(text, p, n, ignorecase) ==
    IF CharAt(text, p + n) = " "
        THEN AltLen(text, p + n + 1, << "seconds", "minutes", "hours" >>, 1, ignorecase)
        ELSE 0

\* Length matched at p by \d+ (seconds|minutes|hours): \d+ is greedy and gives
\* digits back one at a time until the rest matches.
RECURSIVE IntervalFrom(_, _, _, _)
IntervalFrom(text, p, n, ignorecase) ==
    IF n = 0 THEN 0
    ELSE IF IntervalWith(text, p, n, ignorecase) > 0
        THEN n + 1 + IntervalWith(text, p, n, ignorecase)
    ELSE IntervalFrom(text, p, n - 1, ignorecase)

IntervalLen(text, p, ignorecase) ==
    IntervalFrom(text, p, DigitRun(text, p), ignorecase)

\* Variant: the meridiem and the unit matched in exact case, the literal
\* rules regardless of case.
MatchLen_exact_case(key, text, p) ==
    CASE key = "TIME" -> TimeLen(text, p, FALSE)
      [] key = "TIME_INTERVAL" -> IntervalLen(text, p, FALSE)
      [] key = "NUMBER" -> DigitRun(text, p)
      [] OTHER -> AltLen(text, p, Alternatives(key), 1, TRUE)

\* Length the rule named key matches at p, 0 when it does not match.
\* re.IGNORECASE is given once, for the whole of TOKEN_REGEX.
MatchLen(key, text, p) ==
    CASE key = "TIME" -> TimeLen(text, p, TRUE)
      [] key = "TIME_INTERVAL" -> IntervalLen(text, p, TRUE)
      [] key = "NUMBER" -> DigitRun(text, p)
      [] OTHER -> AltLen(text, p, Alternatives(key), 1, TRUE)

\* Index in TOKEN_PATTERNS of the first rule, from index k on, that matches
\* at p; 0 when none does.
RECURSIVE FirstRule(_, _, _)
FirstRule(text, p, k) ==
    IF k > Len(TOKEN_PATTERNS) THEN 0
    ELSE IF MatchLen(TOKEN_PATTERNS[k], text, p) > 0 THEN k
    ELSE FirstRule(text, p, k + 1)

\* The start of the next match of TOKEN_REGEX at or after p; 0 when the rest
\* of the text holds none.
RECURSIVE NextStart(_, _)
NextStart(text, p) ==
    IF p > Len(text) THEN 0
    ELSE IF FirstRule(text, p, 1) > 0 THEN p
    ELSE NextStart(text, p + 1)

\* match.lastgroup of the match starting at s.
LastGroup(text, s) == TOKEN_PATTERNS[FirstRule(text, s, 1)]

\* tokenize, as one function: the (type, value) of every match, in order.
\* TokensFrom continues at position p; TokensAt appends the match that starts
\* at s, of the rule named key, ending before e.
RECURSIVE TokensFrom(_, _)
TokensAt(text, s, key, e) ==
    << << key, SubSeq(text, s, e - 1) >> >> \o TokensFrom(text, e)

TokensOfRule(text, s, key) == TokensAt(text, s, key, s + MatchLen(key, text, s))

TokensOfMatch(text, s) ==
    IF s = 0 THEN << >> ELSE TokensOfRule(text, s, LastGroup(text, s))

TokensFrom(text, p) == TokensOfMatch(text, NextStart(text, p))

tokenize(command) == TokensFrom(command, 1)

----------------------------------------------------------------------------
(* The grammar validator *)

\* [t[0] for t in tokens]
Types(toks) == [k \in 1..Len(toks) |-> toks[k][1]]

TypeSet(toks) == {toks[k][1] : k \in 1..Len(toks)}

\* Variant: the kinds compared position by position over the common prefix
\* only, as a zip of the two lists would.
match_pattern_zip(toks, expected_pattern) ==
    LET same == \A k \in 1..Len(toks) :
                    k <= Len(expected_pattern) => toks[k][1] = expected_pattern[k]
    IN  << same, IF same THEN "Valid command." ELSE "Syntax error in command." >>

match_pattern(toks, expected_pattern) ==
    << Types(toks) = expected_pattern,
       IF Types(toks) = expected_pattern
           THEN "Valid command." ELSE "Syntax error in command." >>

validate_event(toks) ==
    match_pattern(toks, << "EVENT", "SENSOR", "DETECTED", "THEN", "OPERATION", "DEVICE" >>)

validate_schedule(toks) ==
    match_pattern(toks, << "EVENT", "OPERATION", "DEVICE", "AT", "TIME" >>)

validate_condition(toks) ==
    match_pattern(toks, << "EVENT", "SENSOR", "OPERATOR", "NUMBER", "THEN",
                           "OPERATION", "DEVICE" >>)

validate_loop(toks) ==
    match_pattern(toks, << "EVENT", "OPERATION", "SENSOR", "EVERY", "TIME_INTERVAL" >>)

validate_mode(toks) ==
    match_pattern(toks, << "EVENT", "MODE", "FROM_TO", "TIME", "FROM_TO", "TIME" >>)

\* The <<valid, message>> pair validate_syntax returns.
validate_syntax(toks) ==
    IF toks = << >> THEN << FALSE, "Empty command." >>
    ELSE LET first_token == Lower(toks[1][2])
         IN  IF first_token = "on" THEN validate_event(toks)
             ELSE IF first_token = "schedule" THEN validate_schedule(toks)
             ELSE IF first_token = "if" THEN validate_condition(toks)
             ELSE IF first_token = "repeat" THEN validate_loop(toks)
             ELSE IF first_token = "activate" THEN validate_mode(toks)
             ELSE << FALSE, "Invalid command start." >>

----------------------------------------------------------------------------
(* The diagnostics of an invalid command *)

MsgWhen ==
    "'when' is not a valid keyword. Correct syntax: 'on motion detected then turn on lights'."
MsgMissingValue ==
    "Missing value after operator. Ensure a numeric condition, e.g., 'if temperature > 30 then turn on AC'."
MsgThenAfterIf == "The 'then' keyword is required before 'start AC'."
MsgOpenLights ==
    "'open lights' is not a valid action. The correct operation is 'turn on lights'."
MsgTimeFormat ==
    "Invalid time format. Ensure hours are between 1-12 and minutes between 00-59."
MsgFromTo ==
    "The 'from' and 'to' keywords are missing. Correct syntax: 'activate silent mode from 10 PM to 6 AM'."
MsgThen ==
    "The 'then' keyword is required. Correct syntax: 'on motion detected then turn on lights'."
MsgEvery ==
    "The 'every' keyword is required. Correct syntax: 'repeat check temperature every 10 minutes'."
MsgFallback == "Error: Invalid command. Ensure your syntax follows the required format."

\* re.search(r"(\d{1,2}):(\d{2}) (AM|PM)", command): the start of the leftmost
\* match at or after p, 0 when there is none.  No IGNORECASE here.
RECURSIVE TimeSearch(_, _)
TimeSearch(text, p) ==
    IF p > Len(text) THEN 0
    ELSE IF TimeLen(text, p, FALSE) > 0 THEN p
    ELSE TimeSearch(text, p + 1)

\* int(hours) and int(minutes) of the time-like match that starts at s.
HoursAt(text, s) == ToInt(Slice(text, s, TimeDigits(text, s, FALSE)))

MinutesAt(text, s) == ToInt(Slice(text, s + TimeDigits(text, s, FALSE) + 1, 2))

\* not (1 <= int(hours) <= 12) or not (0 <= int(minutes) <= 59)
OutOfRange(hours, minutes) ==
    ~(1 <= hours /\ hours <= 12) \/ ~(0 <= minutes /\ minutes <= 59)

\* The test of the time-format check: time_match exists and is out of range.
BadTimeMatch(command) ==
    LET time_match == TimeSearch(command, 1)
    IN  /\ time_match > 0
        /\ OutOfRange(HoursAt(command, time_match), MinutesAt(command, time_match))

\* "then" not in [t[0] for t in tokens]: the string looked for in the list of
\* token types, as written.
NotInTypes(word, toks) == word \notin TypeSet(toks)

validate_invalid_command(command, toks) ==
    LET token_types == TypeSet(toks)
    IN  IF Contains(command, "when") THEN MsgWhen
        ELSE IF "OPERATOR" \in token_types /\ "NUMBER" \notin token_types
            THEN MsgMissingValue
        ELSE IF Contains(command, "if") /\ NotInTypes("then", toks) THEN MsgThenAfterIf
        ELSE IF /\ \E k \in 1..Len(toks) : toks[k][1] = "OPERATION" /\ toks[k][2] = "open"
                /\ \E k \in 1..Len(toks) : toks[k][1] = "DEVICE" /\ toks[k][2] = "lights"
            THEN MsgOpenLights
        ELSE IF BadTimeMatch(command) THEN MsgTimeFormat
        ELSE IF /\ Contains(command, "activate")
                /\ (~Contains(command, "from") \/ ~Contains(command, "to"))
            THEN MsgFromTo
        ELSE IF Contains(command, "on") /\ NotInTypes("then", toks) THEN MsgThen
        ELSE IF Contains(command, "repeat") /\ NotInTypes("every", toks) THEN MsgEvery
        ELSE MsgFallback

----------------------------------------------------------------------------
(* The commands the user types *)

\* The example commands, each as its words.
commands ==
    << << "on", "motion", "detected", "then", "turn on", "lights" >>,
       << "schedule", "turn on", "watering", "at", "6:00 AM" >>,
       << "if", "temperature", ">", "30", "then", "turn on", "AC" >>,
       << "repeat", "check", "temperature", "every", "10 minutes" >>,
       << "activate", "night mode", "from", "10:00 PM", "to", "6:00 AM" >>,
       << "repeat", "close", "door", "every", "30 minutes" >>,
       << "when", "motion", "detected", "turn on", "lights" >>,
       << "if", "temperature", ">", "30", "start", "AC" >>,
       << "on", "humidity", "triggered", "then", "open", "lights" >>,
       << "schedule", "cooling", "at", "14:99 PM" >>,
       << "activate", "silent mode", "10 PM", "6 AM" >>,
       << "on" >>,
       << "lights" >> >>

\* Words a user may put in place of, or between, the words of an example.
Vocabulary ==
    { "on", "if", "when", "then", "every", "from", "to", "door", "lights", "AC",
      "turn on", "open", "6:00 AM", "14:99 PM", "0:30 AM", "12:60 PM", "123:45 AM",
      "10 minutes", "30", ">", ">=", "<=", "==", ">==", "cooling" }

\* " ".join(words)
RECURSIVE Join(_)
Join(words) ==
    IF words = << >> THEN ""
    ELSE IF Len(words) = 1 THEN words[1]
    ELSE words[1] \o " " \o Join(Tail(words))

\* words without its k-th word
Without(words, k) == SubSeq(words, 1, k - 1) \o SubSeq(words, k + 1, Len(words))

\* words with w in place of its k-th word
Replaced(words, k, w) == [words EXCEPT ![k] = w]

\* words with w put after its k-th word (k = 0: in front)
Inserted(words, k, w) == SubSeq(words, 1, k) \o << w >> \o SubSeq(words, k + 1, Len(words))

\* An example as it stands, or with one word dropped, replaced, added, or
\* written in the other letter case.
Variants(words) ==
    {words}
    \cup {Without(words, k) : k \in 1..Len(words)}
    \cup {Replaced(words, k, w) : k \in 1..Len(words), w \in Vocabulary}
    \cup {Inserted(words, k, w) : k \in 0..Len(words), w \in Vocabulary}
    \cup {Replaced(words, k, Upper(words[k])) : k \in 1..Len(words)}
    \cup {Replaced(words, k, Lower(words[k])) : k \in 1..Len(words)}

\* The texts input() may return.
Commands ==
    {Join(v) : v \in UNION {Variants(commands[b]) : b \in 1..Len(commands)}}

----------------------------------------------------------------------------
(* The script *)

NoRow == [table |-> "none", command |-> "", tokens |-> << >>, message |-> ""]

\* Variant: an empty command and an unrecognized start are reported with the
\* message of validate_syntax, the diagnostics being kept for shape mismatches.
RowFor_syntax_message(command, toks, v, msg) ==
    IF v
        THEN [table |-> "valid", command |-> command, tokens |-> toks, message |-> msg]
        ELSE [table |-> "invalid", command |-> command, tokens |-> toks,
              message |-> IF msg \in {"Empty command.", "Invalid command start."}
                              THEN msg
                              ELSE validate_invalid_command(command, toks)]

\* Variant: the diagnostics run for every command, and a command they object
\* to is reported as invalid whatever validate_syntax answered.
RowFor_always_diagnoses(command, toks, v, msg) ==
    IF v /\ validate_invalid_command(command, toks) = MsgFallback
        THEN [table |-> "valid", command |-> command, tokens |-> toks, message |-> msg]
        ELSE [table |-> "invalid", command |-> command, tokens |-> toks,
              message |-> validate_invalid_command(command, toks)]

\* The row of one iteration: a valid command goes to valid_table with the
\* message of validate_syntax; an invalid one goes to invalid_table with the
\* message of validate_invalid_command.  (Cell wrapping is display only; the
\* row holds the values handed to wrap_text.)
RowFor(command, toks, v, msg) ==
    IF v
        THEN [table |-> "valid", command |-> command, tokens |-> toks, message |-> msg]
        ELSE [table |-> "invalid", command |-> command, tokens |-> toks,
              message |-> validate_invalid_command(command, toks)]

Init ==
    /\ pc = "ask"
    /\ num_commands = 0
    /\ i = 0
    /\ user_input = ""
    /\ pos = 1
    /\ tokens = << >>
    /\ spans = << >>
    /\ valid = FALSE
    /\ message = ""
    /\ row = NoRow

\* The prompt loop: leaves only with a count greater than 0.
AskCount ==
    /\ pc = "ask"
    /\ \E n \in 1..MaxCommands : num_commands' = n
    /\ i' = 0
    /\ pc' = "input"
    /\ UNCHANGED <<user_input, pos, tokens, spans, valid, message, row>>

\* user_input = input(...); tokenize starts with an empty list.
ReadCommand ==
    /\ pc = "input"
    /\ i < num_commands
    /\ \E c \in Commands : user_input' = c
    /\ pos' = 1
    /\ tokens' = << >>
    /\ spans' = << >>
    /\ pc' = "scan"
    /\ UNCHANGED <<num_commands, i, valid, message, row>>

\* One pass of the loop over TOKEN_REGEX.finditer(command): the next match m,
\* from m.start() = s to m.end() = e - 1.
NextMatch ==
    /\ pc = "scan"
    /\ \E s \in {NextStart(user_input, pos)} :
         /\ s > 0
         /\ \E token_type \in {LastGroup(user_input, s)} :
              \E e \in {s + MatchLen(token_type, user_input, s)} :
                 /\ tokens' = Append(tokens, << token_type, SubSeq(user_input, s, e - 1) >>)
                 /\ spans' = Append(spans, << s, e >>)
                 /\ pos' = e
    /\ UNCHANGED <<pc, num_commands, i, user_input, valid, message, row>>

\* finditer is exhausted: tokenize returns.
EndOfMatches ==
    /\ pc = "scan"
    /\ NextStart(user_input, pos) = 0
    /\ pc' = "validate"
    /\ UNCHANGED <<num_commands, i, user_input, pos, tokens, spans, valid, message, row>>

\* valid, message = validate_syntax(tokens)
ValidateSyntax ==
    /\ pc = "validate"
    /\ valid' = validate_syntax(tokens)[1]
    /\ message' = validate_syntax(tokens)[2]
    /\ pc' = "row"
    /\ UNCHANGED <<num_commands, i, user_input, pos, tokens, spans, row>>

\* The if/else that adds the row.
AddRow ==
    /\ pc = "row"
    /\ row' = RowFor(user_input, tokens, valid, message)
    /\ pc' = "next"
    /\ UNCHANGED <<num_commands, i, user_input, pos, tokens, spans, valid, message>>

\* The for loop advances.  The names of the iteration that ended are each
\* assigned again before they are read, so they are reset here.
NextCommand ==
    /\ pc = "next"
    /\ i' = i + 1
    /\ user_input' = ""
    /\ pos' = 1
    /\ tokens' = << >>
    /\ spans' = << >>
    /\ valid' = FALSE
    /\ message' = ""
    /\ row' = NoRow
    /\ pc' = "input"
    /\ UNCHANGED num_commands

\* After the last command the tables are printed.
PrintTables ==
    /\ pc = "input"
    /\ i = num_commands
    /\ pc' = "done"
    /\ UNCHANGED <<num_commands, i, user_input, pos, tokens, spans, valid, message, row>>

Next ==
    \/ AskCount
    \/ ReadCommand
    \/ NextMatch
    \/ EndOfMatches
    \/ ValidateSyntax
    \/ AddRow
    \/ NextCommand
    \/ PrintTables

Spec == Init /\ [][Next]_vars

----------------------------------------------------------------------------
(* Vocabulary of the properties *)

\* The five command shapes, by the lower-cased lexeme of the first token.
ShapeKeys == {"on", "schedule", "if", "repeat", "activate"}

ShapeOf(word) ==
    CASE word = "on" -> << "EVENT", "SENSOR", "DETECTED", "THEN", "OPERATION", "DEVICE" >>
      [] word = "schedule" -> << "EVENT", "OPERATION", "DEVICE", "AT", "TIME" >>
      [] word = "if" ->
            << "EVENT", "SENSOR", "OPERATOR", "NUMBER", "THEN", "OPERATION", "DEVICE" >>
      [] word = "repeat" -> << "EVENT", "OPERATION", "SENSOR", "EVERY", "TIME_INTERVAL" >>
      [] word = "activate" -> << "EVENT", "MODE", "FROM_TO", "TIME", "FROM_TO", "TIME" >>

\* The declaration order of the token kinds.
KindOrder ==
    << "EVENT", "SENSOR", "DEVICE", "OPERATION", "MODE", "TIME", "TIME_INTERVAL",
       "NUMBER", "OPERATOR", "THEN", "FROM_TO", "DETECTED", "AT", "EVERY" >>

KindIndex(kind) == CHOOSE k \in 1..Len(KindOrder) : KindOrder[k] = kind

\* validate_syntax has returned.
Validated == pc \in {"row", "next"}

\* The row of this command has been added.
Reported == pc = "next"

FirstWord == Lower(tokens[1][2])

HasKind(kind) == \E k \in 1..Len(tokens) : tokens[k][1] = kind

\* Some H:MM AM/PM substring of the text, wherever it starts, is out of range.
AnyBadTime(text) ==
    \E p \in 1..Len(text) :
        /\ TimeLen(text, p, FALSE) > 0
        /\ OutOfRange(HoursAt(text, p), MinutesAt(text, p))

OpenLights ==
    /\ \E k \in 1..Len(tokens) : tokens[k] = << "OPERATION", "open" >>
    /\ \E k \in 1..Len(tokens) : tokens[k] = << "DEVICE", "lights" >>

\* The diagnostic the rules (a) to (i) select, each rule with the test its
\* description gives: the first rule whose test succeeds.
SelectedDiagnostic ==
    IF Contains(user_input, "when") THEN MsgWhen
    ELSE IF HasKind("OPERATOR") /\ ~HasKind("NUMBER") THEN MsgMissingValue
    ELSE IF Contains(user_input, "if") /\ ~HasKind("THEN") THEN MsgThenAfterIf
    ELSE IF OpenLights THEN MsgOpenLights
    ELSE IF AnyBadTime(user_input) THEN MsgTimeFormat
    ELSE IF /\ Contains(user_input, "activate")
            /\ (~Contains(user_input, "from") \/ ~Contains(user_input, "to"))
        THEN MsgFromTo
    ELSE IF Contains(user_input, "on") /\ ~HasKind("THEN") THEN MsgThen
    ELSE IF Contains(user_input, "repeat") /\ ~HasKind("EVERY") THEN MsgEvery
    ELSE MsgFallback

\* text with every ">=" and "<=" that no "=" follows written as ">" and "<".
RECURSIVE WithoutOrEqual(_)
WithoutOrEqual(text) ==
    IF text = "" THEN ""
    ELSE IF /\ Head(text) \in {">", "<"}
            /\ CharAt(text, 2) = "="
            /\ CharAt(text, 3) # "="
        THEN Head(text) \o WithoutOrEqual(SubSeq(text, 3, Len(text)))
    ELSE Head(text) \o WithoutOrEqual(Tail(text))

----------------------------------------------------------------------------
(* Properties *)

\* C1: when the first token's lower-cased lexeme is one of on, schedule, if,
\* repeat, activate, validate_syntax answers valid, with the message
\* "Valid command.", exactly when the token kinds equal the shape that lexeme
\* selects, in length and at every position.
C1_ValidIffShape ==
    (Validated /\ tokens # << >> /\ FirstWord \in ShapeKeys)
        => /\ valid <=> (Types(tokens) = ShapeOf(FirstWord))
           /\ valid <=> (message = "Valid command.")

\* An "if" command of seven tokens judged valid, one of another length not.
C1_Witness ==
    /\ pc = "row"
    /\ tokens # << >>
    /\ FirstWord = "if"
    /\ valid
    /\ Len(tokens) = 7

\* C2: the five minimal examples tokenize to exactly the kinds of their shape
\* and are judged valid with the confirmation message, which is what the row
\* shows.
C2_Examples ==
    /\ \A word \in ShapeKeys :
          (Validated /\ user_input =
              (CASE word = "on" -> "on motion detected then turn on lights"
                 [] word = "schedule" -> "schedule turn on watering at 6:00 AM"
                 [] word = "if" -> "if temperature > 30 then turn on AC"
                 [] word = "repeat" -> "repeat check temperature every 10 minutes"
                 [] word = "activate" -> "activate night mode from 10:00 PM to 6:00 AM"))
          => /\ Types(tokens) = ShapeOf(word)
             /\ valid
             /\ message = "Valid command."
             /\ Reported => (row.table = "valid" /\ row.message = "Valid command.")

C2_Witness ==
    /\ Reported
    /\ user_input = "schedule turn on watering at 6:00 AM"
    /\ row.table = "valid"
    /\ tokens[5] = << "TIME", "6:00 AM" >>

\* C3, as stated: a command of zero tokens is reported with "Empty command."
\* and one with an unrecognized first lexeme with "Invalid command start.".
C3_ReportsSyntaxMessage ==
    /\ (Reported /\ tokens = << >>)
          => (row.table = "invalid" /\ row.message = "Empty command.")
    /\ (Reported /\ tokens # << >> /\ FirstWord \notin ShapeKeys)
          => (row.table = "invalid" /\ row.message = "Invalid command start.")

\* C3, amended: validate_syntax answers (invalid, "Empty command.") for zero
\* tokens and (invalid, "Invalid command start.") for an unrecognized first
\* lexeme, but the diagnostics run for these commands too and the row shows
\* their message: for zero tokens the "when" message if the text contains
\* "when" and the fallback otherwise; for an unrecognized start the "when"
\* message whenever the text contains "when", and never a message of
\* validate_syntax.
C3_DiagnosticsRunForEveryInvalid ==
    /\ (Reported /\ tokens = << >>)
          => /\ ~valid
             /\ message = "Empty command."
             /\ row.table = "invalid"
             /\ row.message = (IF Contains(user_input, "when") THEN MsgWhen ELSE MsgFallback)
    /\ (Reported /\ tokens # << >> /\ FirstWord \notin ShapeKeys)
          => /\ ~valid
             /\ message = "Invalid command start."
             /\ row.table = "invalid"
             /\ row.message \notin {"Empty command.", "Invalid command start.",
                                    "Syntax error in command."}
             /\ Contains(user_input, "when") => row.message = MsgWhen

\* The text "when": no token, and the row shows the "when" message.
C3_Witness ==
    /\ Reported
    /\ tokens = << >>
    /\ Contains(user_input, "when")
    /\ row.message = MsgWhen

\* C4: a "then is required" message is reported only when no token of kind
\* THEN is present, and the "every is required" message only when no token of
\* kind EVERY is present.
C4_KeywordReallyMissing ==
    Reported =>
        /\ row.message \in {MsgThenAfterIf, MsgThen} => ~HasKind("THEN")
        /\ row.message = MsgEvery => ~HasKind("EVERY")

\* C5: for an invalid command to which none of the rules (a) to (d) applies,
\* if any H:MM AM/PM substring of the text is out of range, the time-format
\* message is reported.  (Rule (c) is excluded here by the text not holding
\* "if" at all.)
C5_AnyBadTimeReported ==
    ( /\ Reported
      /\ row.table = "invalid"
      /\ ~Contains(user_input, "when")
      /\ ~(HasKind("OPERATOR") /\ ~HasKind("NUMBER"))
      /\ ~Contains(user_input, "if")
      /\ ~OpenLights
      /\ AnyBadTime(user_input) )
        => row.message = MsgTimeFormat

\* C6: the message reported for an invalid command is that of the first of the
\* rules (a) to (i), in that order, whose test succeeds.
C6_FirstSucceedingRule ==
    (Reported /\ row.table = "invalid") => row.message = SelectedDiagnostic

\* C7, as stated: a TIME token has the meridiem AM or PM in exactly that case,
\* and a TIME_INTERVAL token the unit seconds, minutes or hours in lower case.
C7_ExactCase ==
    \A k \in 1..Len(tokens) :
        /\ tokens[k][1] = "TIME"
              => Slice(tokens[k][2], Len(tokens[k][2]) - 1, 2) \in {"AM", "PM"}
        /\ tokens[k][1] = "TIME_INTERVAL"
              => \E unit \in {"seconds", "minutes", "hours"} :
                    Slice(tokens[k][2], Len(tokens[k][2]) - Len(unit) + 1, Len(unit)) = unit

\* C7, amended: every class is matched regardless of letter case, TIME and
\* TIME_INTERVAL included: the text in lower case and the text in upper case
\* give tokens of the same kinds, with the same lexemes up to case, and the
\* same verdict as the text itself.
C7_CaseInsensitive ==
    pc = "row" =>
        \A folded \in {Lower(user_input), Upper(user_input)} :
            \E other \in {tokenize(folded)} :
                /\ Types(other) = Types(tokens)
                /\ \A k \in 1..Len(tokens) : Lower(other[k][2]) = Lower(tokens[k][2])
                /\ validate_syntax(other)[1] = valid

\* A schedule command with the meridiem in lower case, judged valid.
C7_Witness ==
    /\ pc = "row"
    /\ user_input = "schedule turn on watering at 6:00 am"
    /\ tokens[5] = << "TIME", "6:00 am" >>
    /\ valid

\* C8: each token starts where scanning found a match, has the kind of the
\* first rule, in declaration order, that matches there, and is followed by
\* the next token without overlap; "door" is a SENSOR, never a DEVICE; no
\* NUMBER token starts where the TIME or the TIME_INTERVAL rule matches.
C8_FirstRuleWins ==
    /\ \A k \in 1..Len(tokens) :
          LET s == spans[k][1]
              e == spans[k][2]
          IN  /\ s < e
              /\ tokens[k][2] = SubSeq(user_input, s, e - 1)
              /\ MatchLen(tokens[k][1], user_input, s) = e - s
              /\ \A j \in 1..(KindIndex(tokens[k][1]) - 1) :
                    MatchLen(KindOrder[j], user_input, s) = 0
              /\ k > 1 => spans[k - 1][2] <= s
              /\ k = Len(tokens) => pos = e
              /\ Lower(tokens[k][2]) = "door" => tokens[k][1] = "SENSOR"
              /\ tokens[k][1] = "NUMBER"
                    => (TimeLen(user_input, s, TRUE) = 0 /\ IntervalLen(user_input, s, TRUE) = 0)
    /\ (Validated /\ user_input = "repeat close door every 30 minutes") => valid
    /\ (Validated /\ user_input = "on motion detected then turn on door") => ~valid

C8_Witness ==
    /\ pc = "row"
    /\ user_input = "repeat close door every 30 minutes"
    /\ tokens[3] = << "SENSOR", "door" >>
    /\ tokens[5] = << "TIME_INTERVAL", "30 minutes" >>
    /\ valid

\* C9: the verdict is decided by the token kinds and the first lexeme alone; a
\* command judged valid gets the confirmation message and no diagnostic, even
\* when its TIME lexeme is out of range; the time-format message is reported
\* only for commands judged invalid.
C9_ValidSkipsDiagnostics ==
    /\ Validated
          => (valid <=> /\ tokens # << >>
                        /\ FirstWord \in ShapeKeys
                        /\ Types(tokens) = ShapeOf(FirstWord))
    /\ (Reported /\ valid)
          => (row.table = "valid" /\ row.message = "Valid command.")
    /\ (Reported /\ row.message = MsgTimeFormat) => (~valid /\ row.table = "invalid")
    /\ (Validated /\ user_input = "schedule turn on watering at 14:99 PM") => valid

\* A valid command whose time is out of range, reported as valid.
C9_Witness ==
    /\ Reported
    /\ row.table = "valid"
    /\ user_input = "schedule turn on watering at 14:99 PM"
    /\ AnyBadTime(user_input)

\* C10: an OPERATOR token has the lexeme ">", "<" or "==", never ">=" or "<=";
\* a text written with ">=" or "<=" (no further "=" following) gives the same
\* tokens, hence the same verdict, as the text written with ">" or "<".
C10_OrEqualIsDropped ==
    /\ \A k \in 1..Len(tokens) :
          tokens[k][1] = "OPERATOR" => tokens[k][2] \in {">", "<", "=="}
    /\ pc = "row" =>
          \E other \in {tokenize(WithoutOrEqual(user_input))} :
              /\ other = tokens
              /\ validate_syntax(other)[1] = valid

\* A condition written with ">=", judged valid with the operator token ">".
C10_Witness ==
    /\ pc = "row"
    /\ user_input = "if temperature >= 30 then turn on AC"
    /\ tokens[3] = << "OPERATOR", ">" >>
    /\ valid

=============================================================================
